---- MODULE Spec2Model ----
(***************************************************************************)
(* A model of dbt_bulk_codegen/bulk_codegen.py.                            *)
(*                                                                         *)
(* Text (a process's captured standard output, a file's content) is a      *)
(* sequence of one-character strings; the escape byte 0x1B is the element   *)
(* "ESC".  Paths, commands and names are strings.                          *)
(*                                                                         *)
(* Four specifications share the variables:                                *)
(*   SpecText    the post-processing of one captured output (l. 179-180,   *)
(*               206-207) on inputs drawn from bounded sets;               *)
(*   SpecLocate  fetch_dbt_project (l. 46-69);                             *)
(*   SpecDeps    run_dbt_deps (l. 72-87);                                  *)
(*   Spec        main from l. 234 on: source plan, source phase, scan,     *)
(*               base-model plan, base-model phase, run after run.         *)
(***************************************************************************)
EXTENDS Integers, Sequences, FiniteSets, TLC

(***************************************************************************)
(* Bounds of the model.                                                    *)
(***************************************************************************)
MaxRest == 4
MaxBannerPieces == 1
MaxSchemas == 2
MaxRuns == 2
MaxDepth == 2
MaxDescriptors == 2
MaxPackages == 3

(***************************************************************************)
(* Characters and their code points (the ones the model's texts use).      *)
(***************************************************************************)
ESC == "ESC"

Ord(c) ==
    CASE c = ESC  -> 27
      [] c = "\n" -> 10
      [] c = " "  -> 32
      [] c = "-"  -> 45
      [] c = "."  -> 46
      [] c = "0"  -> 48
      [] c = "2"  -> 50
      [] c = ":"  -> 58
      [] c = ";"  -> 59
      [] c = "A"  -> 65
      [] c = "["  -> 91
      [] c = "a"  -> 97
      [] c = "b"  -> 98
      [] c = "c"  -> 99
      [] c = "e"  -> 101
      [] c = "h"  -> 104
      [] c = "i"  -> 105
      [] c = "m"  -> 109
      [] c = "n"  -> 110
      [] c = "o"  -> 111
      [] c = "r"  -> 114
      [] c = "s"  -> 115
      [] c = "t"  -> 116
      [] c = "u"  -> 117
      [] c = "v"  -> 118
      [] c = "w"  -> 119
      [] c = "x"  -> 120

\* regex_ansi_escape_sequences = \x1B(?:[@-Z\\-_]|\[[0-?]*[ -/]*[@-~])
\* [@-Z\\-_] : '@'..'Z' and '\'..'_'
IsFe(c) == (Ord(c) >= 64 /\ Ord(c) <= 90) \/ (Ord(c) >= 92 /\ Ord(c) <= 95)
\* [0-?]
IsParam(c) == Ord(c) >= 48 /\ Ord(c) <= 63
\* [ -/]
IsInter(c) == Ord(c) >= 32 /\ Ord(c) <= 47
\* [@-~]
IsFinal(c) == Ord(c) >= 64 /\ Ord(c) <= 126

\* t[i..j-1] are all in the class (i, j 1-based, j >= i).
AllParam(t, i, j) == \A k \in i..(j - 1) : IsParam(t[k])
AllInter(t, i, j) == \A k \in i..(j - 1) : IsInter(t[k])

\* The ends e (index of the final byte) of the candidate matches of
\* ESC \[ [0-?]* [ -/]* [@-~] that start at i, one per split point p between the
\* parameter and the intermediate bytes.
CsiEnds(t, i) ==
    { e \in (i + 2)..Len(t) :
        /\ IsFinal(t[e])
        /\ \E p \in (i + 2)..e : AllParam(t, i + 2, p) /\ AllInter(t, p, e) }

\* Length of the match of the pattern at index i of t, 0 when there is none.
\* The first alternative is tried first; in the second the quantifiers are
\* greedy, so the longest candidate wins.
MatchLen(t, i) ==
    IF i > Len(t) \/ t[i] # ESC \/ i + 1 > Len(t) THEN 0
    ELSE IF IsFe(t[i + 1]) THEN 2
    ELSE IF t[i + 1] = "["
         THEN LET ends == CsiEnds(t, i)
              IN IF ends = {} THEN 0
                 ELSE (CHOOSE e \in ends : \A f \in ends : f <= e) - i + 1
    ELSE 0

\* regex_ansi_escape_sequences.sub('', t): one left-to-right pass over t that
\* drops every non-overlapping match.
RECURSIVE SubFrom(_, _)
SubFrom(t, i) ==
    IF i > Len(t) THEN <<>>
    ELSE LET n == MatchLen(t, i)
         IN IF n > 0 THEN SubFrom(t, i + n) ELSE <<t[i]>> \o SubFrom(t, i + 1)

StripAnsi(t) == SubFrom(t, 1)

\* The text holds a match of the pattern somewhere.
HasEscape(t) == \E i \in 1..Len(t) : MatchLen(t, i) > 0

\* The payload markers (l. 179 and l. 206).
SrcMarker == <<"v", "e", "r", "s", "i", "o", "n", ":", " ", "2">>
BaseMarker == <<"w", "i", "t", "h", " ", "s", "o", "u", "r", "c", "e", " ", "a", "s">>
Marker(kind) == IF kind = "src" THEN SrcMarker ELSE BaseMarker

\* m occurs in t at 0-based offset k.
OccursAt(t, m, k) == k + Len(m) <= Len(t) /\ SubSeq(t, k + 1, k + Len(m)) = m
Contains(t, m) == \E k \in 0..Len(t) : OccursAt(t, m, k)

\* str.find: the 0-based offset of the first occurrence, -1 when there is none.
Find(t, m) ==
    LET hits == {k \in 0..Len(t) : OccursAt(t, m, k)}
    IN IF hits = {} THEN -1 ELSE CHOOSE k \in hits : \A j \in hits : k <= j

\* SliceFrom with the slice starting one character late.
SliceFrom_Exclusive(t, k) == SubSeq(t, k + 2, Len(t))

\* t[k:] of Python, k >= -1: a negative offset counts from the end.
SliceFrom(t, k) ==
    IF k >= 0 THEN SubSeq(t, k + 1, Len(t))
    ELSE SubSeq(t, (IF Len(t) + k < 0 THEN 0 ELSE Len(t) + k) + 1, Len(t))

\* l. 179 / l. 206
CleanedPrefix(kind, stdout) == SliceFrom(stdout, Find(stdout, Marker(kind)))
\* l. 179-180 / l. 206-207: the text written to the destination.
FinalResult(kind, stdout) == StripAnsi(CleanedPrefix(kind, stdout))

(***************************************************************************)
(* State.                                                                  *)
(***************************************************************************)
VARIABLES
    \* post-processing of one captured output
    tpc,        \* "idle", "captured", "sliced", "stripped", "restripped"
    tkind,      \* cmd_type of the entry: "src" or "base"
    banner,     \* what the tool printed before the payload
    rest,       \* what the tool printed after the payload marker
    captured,   \* raw_result.stdout
    cleaned,    \* cleaned_prefix_result
    final,      \* final_source_yaml_result / final_base_model_result
    again,      \* the substitution applied to final once more
    \* main, l. 234-248
    pc,         \* "idle", "plan_src", "exec_src", "scan", "plan_base", "exec_base", "done", "failed"
    run,        \* number of the run of main in progress
    if_exists,  \* if_exists_behavior
    source_list,        \* source_schemas_list
    declared,   \* the warehouse: the tables the generator reports
    fs,         \* the files: path -> content, for the paths that exist
    fs0,        \* the files before the first run
    fsDone,     \* the files when the previous run completed
    dirs,       \* the directories made by os.makedirs
    source_commands,    \* source_command_mappings
    base_commands,      \* source_with_base_command_mappings
    idx,        \* position of the executor's loop in its plan
    history,    \* what the executor did with each entry, all runs
    \* fetch_dbt_project
    lpc,        \* "idle", "start", "loop", "returned", "raised"
    cwd,        \* os.getcwd()
    descriptors,        \* the directories that hold a dbt_project.yml
    custom_project_path,
    project_directory,
    located,    \* the path returned
    \* run_dbt_deps
    dpc,        \* "idle", "start", "loaded", "listed", "returned", "raised"
    packages_yml,       \* <project>/packages.yml
    package_data,
    package_list,
    deps_invoked,       \* dbt deps was run
    deps_error  \* the exception raised

textVars == <<tpc, tkind, banner, rest, captured, cleaned, final, again>>
pipeVars == <<pc, run, if_exists, source_list, declared, fs, fs0, fsDone, dirs,
              source_commands, base_commands, idx, history>>

locVars == <<lpc, cwd, descriptors, custom_project_path, project_directory, located>>
depVars == <<dpc, packages_yml, package_data, package_list, deps_invoked, deps_error>>

vars == <<textVars, pipeVars, locVars, depVars>>

(***************************************************************************)
(* SpecText: one captured output, sliced at the marker and stripped.       *)
(***************************************************************************)
BannerPieces == {<<"x">>, <<ESC, "[", "0", "m">>, SrcMarker, BaseMarker}

RECURSIVE PieceSeqs(_)
PieceSeqs(n) ==
    IF n = 0 THEN {<<>>}
    ELSE PieceSeqs(n - 1) \cup {b \o p : b \in PieceSeqs(n - 1), p \in BannerPieces}

Banners == PieceSeqs(MaxBannerPieces)

RestChars == {ESC, "[", "0", "A", "x"}

RECURSIVE SeqsUpTo(_, _)
SeqsUpTo(S, n) ==
    IF n = 0 THEN {<<>>}
    ELSE SeqsUpTo(S, n - 1) \cup {s \o <<c>> : s \in SeqsUpTo(S, n - 1), c \in S}

Rests == SeqsUpTo(RestChars, MaxRest)

TextIdle ==
    /\ tpc = "idle" /\ tkind = "src" /\ banner = <<>> /\ rest = <<>>
    /\ captured = <<>> /\ cleaned = <<>> /\ final = <<>> /\ again = <<>>

\* subprocess.run(..., stdout=PIPE) returned: <banner> newline <marker> <rest>.
TextInit ==
    /\ tpc = "captured"
    /\ tkind \in {"src", "base"}
    /\ banner \in Banners
    /\ rest \in Rests
    /\ captured = banner \o <<"\n">> \o Marker(tkind) \o rest
    /\ cleaned = <<>> /\ final = <<>> /\ again = <<>>

\* l. 179 / l. 206
SliceOutput ==
    /\ tpc = "captured"
    /\ cleaned' = CleanedPrefix(tkind, captured)
    /\ tpc' = "sliced"
    /\ UNCHANGED <<tkind, banner, rest, captured, final, again>>
    /\ UNCHANGED <<pipeVars, locVars, depVars>>

\* l. 180 / l. 207
StripOutput ==
    /\ tpc = "sliced"
    /\ final' = StripAnsi(cleaned)
    /\ tpc' = "stripped"
    /\ UNCHANGED <<tkind, banner, rest, captured, cleaned, again>>
    /\ UNCHANGED <<pipeVars, locVars, depVars>>

\* The substitution of l. 40 applied to its own result.
StripAgain ==
    /\ tpc = "stripped"
    /\ again' = StripAnsi(final)
    /\ tpc' = "restripped"
    /\ UNCHANGED <<tkind, banner, rest, captured, cleaned, final>>
    /\ UNCHANGED <<pipeVars, locVars, depVars>>

(***************************************************************************)
(* The pipeline of main (l. 234-248).                                      *)
(***************************************************************************)
SchemaNames == {"a", "b"}
TableNames == {"t", "u"}
Policies == {"skip", "append", "replace"}

\* main, l. 222 and l. 228-229: the project is found at /proj.
DbName == "lake"
ProjectDir == "/proj"

\* os.path.join for a second part that is relative and a first part that does
\* not end with the separator (the names of the model hold no separator).
Join(a, b) == a \o "/" \o b

ModelsDir == Join(ProjectDir, "models")

\* l. 96
DestinationFolder(root, source) == Join(root, source)
\* OutputFileName without the schema name.
OutputFileName_NoSchema(source) == "_src_" \o ".yml"

\* l. 99
OutputFileName(source) == "_src_" \o source \o ".yml"
\* l. 103-104; str(True) is "True"
SourceCommand(db, source, generate_columns) ==
    "dbt run-operation generate_source --args '{\"schema_name\": \"" \o source
    \o "\", \"database_name\": \"" \o db \o "\", \"generate_columns\": "
    \o (IF generate_columns THEN "True" ELSE "False") \o "}'"
\* l. 123-124
StgFileName(source, table) == "stg_" \o source \o "__" \o table \o ".sql"
\* l. 154-155
BaseCommand(source, table) ==
    "dbt run-operation generate_base_model --args '{\"source_name\": \"" \o source
    \o "\", \"table_name\": \"" \o table \o "\"}'"

\* l. 95-107: the mapping of one source.
SourceMapping(db, source, generate_columns, root) ==
    [source |-> source,
     destination_folder |-> DestinationFolder(root, source),
     destination_file_name |-> OutputFileName(source),
     source_destination_path |-> Join(DestinationFolder(root, source), OutputFileName(source)),
     source_command |-> SourceCommand(db, source, generate_columns)]

\* l. 90-110: one mapping per element of the list, in its order.
SourceCmdGenerator(db, sources, generate_columns, root) ==
    [k \in 1..Len(sources) |-> SourceMapping(db, sources[k], generate_columns, root)]

(***************************************************************************)
(* The generator (dbt with the codegen package), as the executor sees it:  *)
(* a command gives the same standard output each time it succeeds.         *)
(***************************************************************************)
Reverse(s) == [k \in 1..Len(s) |-> s[Len(s) + 1 - k]]

\* The tables of each schema of the warehouse.
Warehouse(source) == IF source = "a" THEN declared ELSE Reverse(declared)

ToolBanner == <<ESC, "[", "0", "m", "x", "\n">>
ToolReset == <<ESC, "[", "0", "m">>

DocHead == SrcMarker \o <<"\n">>

RECURSIVE TableLines(_)
TableLines(tables) ==
    IF tables = <<>> THEN <<>>
    ELSE <<"-", Head(tables), "\n">> \o TableLines(Tail(tables))

GenerateSourceOutput(source) ==
    ToolBanner \o DocHead \o TableLines(Warehouse(source)) \o ToolReset

GenerateBaseModelOutput(source, table) ==
    ToolBanner \o BaseMarker \o <<" ", source, ".", table, "\n">> \o ToolReset

\* subprocess.run(command, shell=True, stdout=PIPE).stdout, exit status 0
DbtStdout(command) ==
    IF \E s \in SchemaNames : command = SourceCommand(DbName, s, TRUE)
    THEN GenerateSourceOutput(CHOOSE s \in SchemaNames : command = SourceCommand(DbName, s, TRUE))
    ELSE IF \E s \in SchemaNames, t \in TableNames : command = BaseCommand(s, t)
    THEN LET st == CHOOSE st \in SchemaNames \X TableNames : command = BaseCommand(st[1], st[2])
         IN GenerateBaseModelOutput(st[1], st[2])
    ELSE <<>>

(***************************************************************************)
(* yaml.safe_load and the shape read from it (l. 119-124), on the texts    *)
(* of the model: documents "version: 2" newline, then one line "-" name    *)
(* newline per table; a key given again replaces the earlier one, so the   *)
(* last document of a file decides.  ok is FALSE when the read raises.     *)
(***************************************************************************)
RECURSIVE LoadFrom(_, _, _, _)
LoadFrom(t, i, acc, started) ==
    IF i > Len(t) THEN [ok |-> started /\ acc # <<>>, tables |-> acc]
    ELSE IF OccursAt(t, DocHead, i - 1) THEN LoadFrom(t, i + Len(DocHead), <<>>, TRUE)
    ELSE IF started /\ i + 2 <= Len(t) /\ t[i] = "-" /\ t[i + 1] \in TableNames /\ t[i + 2] = "\n"
         THEN LoadFrom(t, i + 3, Append(acc, t[i + 1]), TRUE)
    ELSE [ok |-> FALSE, tables |-> <<>>]

\* l. 120-122: tables_list, as the names d['name']
LoadTables(content) == LoadFrom(content, 1, <<>>, FALSE)

\* TableNamesOf with the tables taken last to first.
TableNamesOf_Reversed(mapping_data, names) ==
    [k \in 1..Len(names) |->
        [name |-> names[Len(names) + 1 - k],
         file_name |-> Join(mapping_data.destination_folder,
                            StgFileName(mapping_data.source, names[Len(names) + 1 - k]))]]

\* l. 123-124: table_names
TableNamesOf(mapping_data, names) ==
    [k \in 1..Len(names) |->
        [name |-> names[k],
         file_name |-> Join(mapping_data.destination_folder,
                            StgFileName(mapping_data.source, names[k]))]]

\* l. 117-127 for one mapping: mapping_data["tables"] = table_names
WithTables(mapping_data, files) ==
    [k \in DOMAIN mapping_data \cup {"tables"} |->
        IF k = "tables"
        THEN TableNamesOf(mapping_data, LoadTables(files[mapping_data.source_destination_path]).tables)
        ELSE mapping_data[k]]

\* l. 113-130
SrcYmlScanResult(mappings, files) == [k \in 1..Len(mappings) |-> WithTables(mappings[k], files)]

\* The read of some mapping's file raises (l. 119-124).
ScanRaises(mappings, files) ==
    \E k \in 1..Len(mappings) :
        \/ mappings[k].source_destination_path \notin DOMAIN files
        \/ ~LoadTables(files[mappings[k].source_destination_path]).ok

\* l. 147-162
BaseCommandGenerator(source_name, table_mappings) ==
    [k \in 1..Len(table_mappings) |->
        [name |-> table_mappings[k].name,
         file_name |-> table_mappings[k].file_name,
         base_command |-> BaseCommand(source_name, table_mappings[k].name)]]

\* l. 133-144
AllBaseCommandsGenerator(mappings) ==
    [k \in 1..Len(mappings) |->
        [source |-> mappings[k].source,
         tables |-> BaseCommandGenerator(mappings[k].source, mappings[k].tables)]]

\* The entries of l. 193-196 in the order the nested loops visit them.
RECURSIVE FlatBase(_)
FlatBase(plan) ==
    IF plan = <<>> THEN <<>>
    ELSE [k \in 1..Len(Head(plan).tables) |->
             [source |-> Head(plan).source,
              name |-> Head(plan).tables[k].name,
              file_name |-> Head(plan).tables[k].file_name,
              base_command |-> Head(plan).tables[k].base_command]]
         \o FlatBase(Tail(plan))

(***************************************************************************)
(* The executor, bash_run_and_make_files (l. 165-217).                     *)
(***************************************************************************)
\* ShouldSkip comparing the policy as given, with another spelling.
ShouldSkip_CaseSensitive(policy, path, files) == policy = "Skip" /\ path \in DOMAIN files

\* l. 170 / l. 197
ShouldSkip(policy, path, files) == policy = "skip" /\ path \in DOMAIN files

\* OpenMode that truncates under every policy, and one that never does.
OpenMode_AlwaysWrite(policy) == "w"
OpenMode_AlwaysAppend(policy) == "a"

\* l. 182-185 / l. 209-212
OpenMode(policy) == IF policy = "replace" THEN "w" ELSE "a"

\* l. 189-190 / l. 216-217: open(path, mode) and write(text)
WriteFile(files, path, mode, text) ==
    [q \in DOMAIN files \cup {path} |->
        IF q = path
        THEN IF mode = "a" /\ path \in DOMAIN files THEN files[path] \o text ELSE text
        ELSE files[q]]

Event(kind, path, command, outcome) ==
    [run |-> run, kind |-> kind, path |-> path, command |-> command, outcome |-> outcome]

\* l. 235-236
PlanSources ==
    /\ pc = "plan_src"
    /\ source_commands' = SourceCmdGenerator(DbName, source_list, TRUE, ModelsDir)
    /\ dirs' = dirs \cup {DestinationFolder(ModelsDir, source_list[k]) : k \in 1..Len(source_list)}
    /\ pc' = "exec_src"
    /\ idx' = 1
    /\ UNCHANGED <<run, if_exists, source_list, declared, fs, fs0, fsDone, base_commands, history>>
    /\ UNCHANGED <<textVars, locVars, depVars>>

\* l. 168-173: the entry is skipped
ExecSrcSkip ==
    /\ pc = "exec_src" /\ idx <= Len(source_commands)
    /\ LET e == source_commands[idx] IN
        /\ ShouldSkip(if_exists, e.source_destination_path, fs)
        /\ history' = Append(history, Event("src", e.source_destination_path, e.source_command, "skipped"))
    /\ idx' = idx + 1
    /\ UNCHANGED <<pc, run, if_exists, source_list, declared, fs, fs0, fsDone, dirs,
                   source_commands, base_commands>>
    /\ UNCHANGED <<textVars, locVars, depVars>>

\* l. 175-190: the command exits with status 0 and its output is written
ExecSrcWrite ==
    /\ pc = "exec_src" /\ idx <= Len(source_commands)
    /\ LET e == source_commands[idx] IN
        /\ ~ShouldSkip(if_exists, e.source_destination_path, fs)
        /\ fs' = WriteFile(fs, e.source_destination_path, OpenMode(if_exists),
                           FinalResult("src", DbtStdout(e.source_command)))
        /\ history' = Append(history, Event("src", e.source_destination_path, e.source_command, "written"))
    /\ idx' = idx + 1
    /\ UNCHANGED <<pc, run, if_exists, source_list, declared, fs0, fsDone, dirs,
                   source_commands, base_commands>>
    /\ UNCHANGED <<textVars, locVars, depVars>>

\* ExecSrcFail with the error caught: the executor goes on to the next entry.
ExecSrcFail_Swallowed ==
    /\ pc = "exec_src" /\ idx <= Len(source_commands)
    /\ LET e == source_commands[idx] IN
        /\ ~ShouldSkip(if_exists, e.source_destination_path, fs)
        /\ history' = Append(history, Event("src", e.source_destination_path, e.source_command, "failed"))
    /\ idx' = idx + 1
    /\ UNCHANGED <<pc, run, if_exists, source_list, declared, fs, fs0, fsDone, dirs,
                   source_commands, base_commands>>
    /\ UNCHANGED <<textVars, locVars, depVars>>

\* l. 176-178: the command exits with another status, CalledProcessError
ExecSrcFail ==
    /\ pc = "exec_src" /\ idx <= Len(source_commands)
    /\ LET e == source_commands[idx] IN
        /\ ~ShouldSkip(if_exists, e.source_destination_path, fs)
        /\ history' = Append(history, Event("src", e.source_destination_path, e.source_command, "failed"))
    /\ pc' = "failed"
    /\ UNCHANGED <<run, if_exists, source_list, declared, fs, fs0, fsDone, dirs,
                   source_commands, base_commands, idx>>
    /\ UNCHANGED <<textVars, locVars, depVars>>

\* l. 241, every file read
SrcYmlScan ==
    /\ pc = "exec_src" /\ idx > Len(source_commands)
    /\ ~ScanRaises(source_commands, fs)
    /\ source_commands' = SrcYmlScanResult(source_commands, fs)
    /\ pc' = "plan_base"
    /\ UNCHANGED <<run, if_exists, source_list, declared, fs, fs0, fsDone, dirs,
                   base_commands, idx, history>>
    /\ UNCHANGED <<textVars, locVars, depVars>>

\* l. 241, a file is not a declaration: the read raises
SrcYmlScanFail ==
    /\ pc = "exec_src" /\ idx > Len(source_commands)
    /\ ScanRaises(source_commands, fs)
    /\ pc' = "failed"
    /\ UNCHANGED <<run, if_exists, source_list, declared, fs, fs0, fsDone, dirs,
                   source_commands, base_commands, idx, history>>
    /\ UNCHANGED <<textVars, locVars, depVars>>

\* l. 244
PlanBaseModels ==
    /\ pc = "plan_base"
    /\ base_commands' = AllBaseCommandsGenerator(source_commands)
    /\ dirs' = dirs \cup {"models/" \o source_commands[k].source :
                            k \in {j \in 1..Len(source_commands) : source_commands[j].tables # <<>>}}
    /\ pc' = "exec_base"
    /\ idx' = 1
    /\ UNCHANGED <<run, if_exists, source_list, declared, fs, fs0, fsDone, source_commands, history>>
    /\ UNCHANGED <<textVars, locVars, depVars>>

\* l. 193-200: the entry is skipped
ExecBaseSkip ==
    /\ pc = "exec_base" /\ idx <= Len(FlatBase(base_commands))
    /\ LET e == FlatBase(base_commands)[idx] IN
        /\ ShouldSkip(if_exists, e.file_name, fs)
        /\ history' = Append(history, Event("base", e.file_name, e.base_command, "skipped"))
    /\ idx' = idx + 1
    /\ UNCHANGED <<pc, run, if_exists, source_list, declared, fs, fs0, fsDone, dirs,
                   source_commands, base_commands>>
    /\ UNCHANGED <<textVars, locVars, depVars>>

\* l. 202-217: the command exits with status 0 and its output is written
ExecBaseWrite ==
    /\ pc = "exec_base" /\ idx <= Len(FlatBase(base_commands))
    /\ LET e == FlatBase(base_commands)[idx] IN
        /\ ~ShouldSkip(if_exists, e.file_name, fs)
        /\ fs' = WriteFile(fs, e.file_name, OpenMode(if_exists),
                           FinalResult("base", DbtStdout(e.base_command)))
        /\ history' = Append(history, Event("base", e.file_name, e.base_command, "written"))
    /\ idx' = idx + 1
    /\ UNCHANGED <<pc, run, if_exists, source_list, declared, fs0, fsDone, dirs,
                   source_commands, base_commands>>
    /\ UNCHANGED <<textVars, locVars, depVars>>

\* l. 203-205: the command exits with another status, CalledProcessError
ExecBaseFail ==
    /\ pc = "exec_base" /\ idx <= Len(FlatBase(base_commands))
    /\ LET e == FlatBase(base_commands)[idx] IN
        /\ ~ShouldSkip(if_exists, e.file_name, fs)
        /\ history' = Append(history, Event("base", e.file_name, e.base_command, "failed"))
    /\ pc' = "failed"
    /\ UNCHANGED <<run, if_exists, source_list, declared, fs, fs0, fsDone, dirs,
                   source_commands, base_commands, idx>>
    /\ UNCHANGED <<textVars, locVars, depVars>>

\* l. 248
Finish ==
    /\ pc = "exec_base" /\ idx > Len(FlatBase(base_commands))
    /\ pc' = "done"
    /\ UNCHANGED <<run, if_exists, source_list, declared, fs, fs0, fsDone, dirs,
                   source_commands, base_commands, idx, history>>
    /\ UNCHANGED <<textVars, locVars, depVars>>

\* main is started again, with the same literal configuration (l. 222-225)
RunAgain ==
    /\ pc = "done" /\ run < MaxRuns
    /\ run' = run + 1
    /\ fsDone' = fs
    /\ source_commands' = <<>>
    /\ base_commands' = <<>>
    /\ idx' = 0
    /\ pc' = "plan_src"
    /\ UNCHANGED <<if_exists, source_list, declared, fs, fs0, dirs, history>>
    /\ UNCHANGED <<textVars, locVars, depVars>>

\* The inputs of the runs.
SchemaLists == SeqsUpTo(SchemaNames, MaxSchemas) \ {<<>>}
\* What a schema of the warehouse may hold: one table, two tables in either
\* order, the same table reported twice.
TableLists == {<<"t">>, <<"t", "u">>, <<"u", "t">>, <<"t", "t">>}

SrcPath(s) == Join(DestinationFolder(ModelsDir, s), OutputFileName(s))
BasePath(s, t) == Join(DestinationFolder(ModelsDir, s), StgFileName(s, t))
\* What a destination may hold before the first run: nothing, no text, text
\* that is no declaration, an older declaration.
OldDeclaration == DocHead \o <<"-", "u", "\n">>
PriorContents == {<<>>, <<"x">>, OldDeclaration}
NoFiles == [p \in {} |-> <<>>]
PriorPaths == {SrcPath("a"), BasePath("a", "t")}
Priors == {NoFiles} \cup {[q \in {p} |-> c] : p \in PriorPaths, c \in PriorContents}

PipeIdle ==
    /\ pc = "idle" /\ run = 0 /\ if_exists = "skip" /\ source_list = <<>> /\ declared = <<>>
    /\ fs = NoFiles /\ fs0 = NoFiles /\ fsDone = NoFiles /\ dirs = {}
    /\ source_commands = <<>> /\ base_commands = <<>> /\ idx = 0 /\ history = <<>>

PipeInit ==
    /\ pc = "plan_src"
    /\ run = 1
    /\ if_exists \in Policies
    /\ source_list \in SchemaLists
    /\ declared \in TableLists
    /\ fs \in Priors
    /\ fs0 = fs
    /\ fsDone = fs
    /\ dirs = {}
    /\ source_commands = <<>>
    /\ base_commands = <<>>
    /\ idx = 0
    /\ history = <<>>

(***************************************************************************)
(* Properties of the pipeline.                                             *)
(***************************************************************************)
RECURSIVE Copies(_, _)
Copies(text, n) == IF n = 0 THEN <<>> ELSE text \o Copies(text, n - 1)

\* One generation's cleaned output for an entry the executor handled.
OneGeneration(e) == FinalResult(e.kind, DbtStdout(e.command))

EventsAt(path, outcomes) ==
    {k \in 1..Len(history) : history[k].path = path /\ history[k].outcome \in outcomes}
Written(path) == Cardinality(EventsAt(path, {"written"}))
Processed(path) == Cardinality(EventsAt(path, {"written", "skipped"}))
EntryOf(path) == history[CHOOSE k \in 1..Len(history) : history[k].path = path]

ThisRun(kind) == SelectSeq(history, LAMBDA e : e.run = run /\ e.kind = kind)
Last(s) == s[Len(s)]

\* C1: when a run under the policy skip has completed and main runs again
\* under skip, the second run runs no generation command (every entry it
\* handles is skipped), does not fail, and leaves every file as the first run
\* left it.
C1_SkipTwice ==
    (if_exists = "skip" /\ run >= 2) =>
        /\ fs = fsDone
        /\ pc # "failed"
        /\ \A k \in 1..Len(history) : history[k].run = run => history[k].outcome = "skipped"
        /\ pc = "done" =>
              /\ Len(ThisRun("src")) = Len(source_list)
              /\ Len(ThisRun("base")) = Len(FlatBase(base_commands))

C1_Witness ==
    /\ if_exists = "skip" /\ run = 2 /\ pc = "done"
    /\ \E k \in 1..Len(history) : history[k].run = 1 /\ history[k].outcome = "written"
    /\ Len(ThisRun("src")) >= 2 /\ Len(ThisRun("base")) >= 2

\* C2 as amended: for a destination that did not exist before the first run,
\* under append the file holds as many copies of one generation's cleaned
\* output as the entry was executed; under skip the first execution writes one
\* copy and every later one is skipped, so the file holds exactly one copy.
C2_AppendCopies ==
    \A p \in DOMAIN fs \ DOMAIN fs0 :
        /\ if_exists = "append" =>
              /\ fs[p] = Copies(OneGeneration(EntryOf(p)), Written(p))
              /\ Written(p) = Processed(p)
        /\ if_exists = "skip" =>
              /\ fs[p] = OneGeneration(EntryOf(p))
              /\ Written(p) = 1

C2_Witness ==
    /\ if_exists = "append"
    /\ \E p, q \in DOMAIN fs \ DOMAIN fs0 :
        /\ EntryOf(p).kind = "src" /\ Written(p) >= 2
        /\ EntryOf(q).kind = "base" /\ Written(q) >= 2

\* C2 as stated: under append and under skip alike, a destination absent before
\* the first run holds N copies after the entry was executed N times.
C2_Original ==
    \A p \in DOMAIN fs \ DOMAIN fs0 :
        if_exists \in {"append", "skip"} =>
            fs[p] = Copies(OneGeneration(EntryOf(p)), Processed(p))

\* C3: under replace no entry is skipped, and every destination written, in
\* whatever run, however often and whatever it held before, holds exactly one
\* generation's cleaned output.
C3_ReplaceOne ==
    if_exists = "replace" =>
        \A k \in 1..Len(history) :
            /\ history[k].outcome # "skipped"
            /\ history[k].outcome = "written" =>
                  /\ history[k].path \in DOMAIN fs
                  /\ fs[history[k].path] = OneGeneration(history[k])

C3_Witness ==
    /\ if_exists = "replace" /\ run = 2 /\ pc = "done"
    /\ \E p \in DOMAIN fs0 : fs0[p] # <<>> /\ Written(p) >= 3
    /\ \E q \in DOMAIN fs \ DOMAIN fs0 : EntryOf(q).kind = "src" /\ Written(q) >= 2

SrcPathForm(s) == "/proj/models/" \o s \o "/_src_" \o s \o ".yml"

PlanShape ==
    /\ Len(source_commands) = Len(source_list)
    /\ \A k \in 1..Len(source_commands) :
        /\ source_commands[k].source = source_list[k]
        /\ source_commands[k].source_destination_path = SrcPathForm(source_list[k])

\* C4 as amended: the plan has one entry per element of the list, in the
\* list's order, each with the path <root>/<schema>/_src_<schema>.yml; two
\* entries share their path exactly when they are for the same schema name.
C4_PlanPerElement ==
    source_commands # <<>> =>
        /\ PlanShape
        /\ \A i, j \in 1..Len(source_commands) :
            (source_commands[i].source_destination_path = source_commands[j].source_destination_path)
                <=> (source_list[i] = source_list[j])

C4_Witness ==
    /\ Len(source_commands) = 2
    /\ source_list[1] = source_list[2]
    /\ source_commands[1].source_destination_path = source_commands[2].source_destination_path

\* C4 as stated: no two entries of the plan share a destination path.
C4_Original ==
    source_commands # <<>> =>
        /\ PlanShape
        /\ \A i, j \in 1..Len(source_commands) :
            i # j => source_commands[i].source_destination_path # source_commands[j].source_destination_path

Scanned == \A k \in 1..Len(source_commands) : "tables" \in DOMAIN source_commands[k]

\* C5: a generation command that exits non-zero ends the run there: the step
\* writes no file, nothing happens after it (the files keep what the earlier
\* entries wrote), and when it is a source command no declaration has been
\* scanned and no base-model entry has been planned or handled.
C5_FailureIsFatal ==
    [][/\ pc # "failed"
       /\ (history' # history /\ Last(history').outcome = "failed") =>
             /\ pc' = "failed"
             /\ fs' = fs
             /\ Last(history').kind = "src" =>
                   /\ ThisRun("base")' = <<>>
                   /\ base_commands' = <<>>
                   /\ \A k \in 1..Len(source_commands') : "tables" \notin DOMAIN source_commands'[k]]_vars

C5_Witness ==
    /\ pc = "failed" /\ history # <<>>
    /\ Last(history).outcome = "failed" /\ Last(history).kind = "src"
    /\ Len(ThisRun("src")) = 2
    /\ ThisRun("src")[1].outcome = "written"
    /\ ThisRun("src")[1].path \in DOMAIN fs
    /\ Last(history).path \notin DOMAIN fs

StgPathForm(s, t) == "/proj/models/" \o s \o "/stg_" \o s \o "__" \o t \o ".sql"

\* The base-model entries the declarations call for: schema after schema in
\* the order of the list, and table after table in the order of the file.
RECURSIVE ExpectedBase(_)
ExpectedBase(sources) ==
    IF sources = <<>> THEN <<>>
    ELSE LET s == Head(sources)
             names == LoadTables(fs[SrcPathForm(s)]).tables
         IN [k \in 1..Len(names) |->
                [path |-> StgPathForm(s, names[k]), command |-> BaseCommand(s, names[k])]]
            \o ExpectedBase(Tail(sources))

\* C10: the base-model entries handled in a run are, in order, a prefix of
\* (and in a completed run exactly) the tables of each list element's
\* declaration file, schema by schema in list order and table by table in
\* file order, each with the path <schema folder>/stg_<schema>__<table>.sql;
\* none is handled before every source entry was handled and every
\* declaration scanned.
C10_TwoPhaseOrder ==
    (ThisRun("base") # <<>> \/ pc \in {"exec_base", "done"}) =>
        /\ pc \in {"exec_base", "done", "failed"}
        /\ Len(ThisRun("src")) = Len(source_list)
        /\ Scanned
        /\ Len(ThisRun("base")) <= Len(ExpectedBase(source_list))
        /\ \A k \in 1..Len(ThisRun("base")) :
            /\ ThisRun("base")[k].path = ExpectedBase(source_list)[k].path
            /\ ThisRun("base")[k].command = ExpectedBase(source_list)[k].command
        /\ pc = "done" => Len(ThisRun("base")) = Len(ExpectedBase(source_list))

C10_Witness ==
    /\ pc = "done"
    /\ Len(source_list) = 2 /\ source_list[1] # source_list[2]
    /\ Len(ThisRun("base")) = 3
    /\ \E p \in DOMAIN fs0 : fs0[p] = OldDeclaration /\ ThisRun("src")[1].path = p
                              /\ ThisRun("src")[1].outcome = "skipped"

(***************************************************************************)
(* fetch_dbt_project (l. 46-69).  A directory is the sequence of the names *)
(* on its path; the filesystem root is the empty sequence.                 *)
(***************************************************************************)
DirNames == {"p", "q"}
RootPath == <<>>

\* os.path.dirname of a directory below the root
Dirname(d) == SubSeq(d, 1, Len(d) - 1)

RECURSIVE PathStr(_)
PathStr(d) ==
    IF d = <<>> THEN "/"
    ELSE IF Len(d) = 1 THEN "/" \o d[1]
    ELSE PathStr(Dirname(d)) \o "/" \o d[Len(d)]

AllDirs == SeqsUpTo(DirNames, MaxDepth)

RECURSIVE SubsetsUpTo(_, _)
SubsetsUpTo(S, n) ==
    IF n = 0 THEN {{}}
    ELSE SubsetsUpTo(S, n - 1) \cup {T \cup {x} : T \in SubsetsUpTo(S, n - 1), x \in S}

LocIdle ==
    /\ lpc = "idle" /\ cwd = <<>> /\ descriptors = {} /\ custom_project_path = ""
    /\ project_directory = <<>> /\ located = ""

\* custom_project_path "" stands for None.
LocInit ==
    /\ lpc = "start"
    /\ cwd \in AllDirs
    /\ descriptors \in SubsetsUpTo(AllDirs, MaxDescriptors)
    /\ custom_project_path \in {"", "/elsewhere"}
    /\ project_directory = <<>>
    /\ located = ""

\* l. 53-57
LocateStart ==
    /\ lpc = "start"
    /\ project_directory' = cwd
    /\ IF custom_project_path # ""
       THEN located' = custom_project_path /\ lpc' = "returned"
       ELSE located' = located /\ lpc' = "loop"
    /\ UNCHANGED <<cwd, descriptors, custom_project_path>>
    /\ UNCHANGED <<textVars, pipeVars, depVars>>

\* l. 59-64
LocateFound ==
    /\ lpc = "loop"
    /\ project_directory # RootPath
    /\ project_directory \in descriptors
    /\ located' = PathStr(project_directory)
    /\ lpc' = "returned"
    /\ UNCHANGED <<cwd, descriptors, custom_project_path, project_directory>>
    /\ UNCHANGED <<textVars, pipeVars, depVars>>

\* l. 59-62, 65-66
LocateUp ==
    /\ lpc = "loop"
    /\ project_directory # RootPath
    /\ project_directory \notin descriptors
    /\ project_directory' = Dirname(project_directory)
    /\ UNCHANGED <<lpc, cwd, descriptors, custom_project_path, located>>
    /\ UNCHANGED <<textVars, pipeVars, depVars>>

\* l. 59, 68-69
LocateRaise ==
    /\ lpc = "loop"
    /\ project_directory = RootPath
    /\ lpc' = "raised"
    /\ UNCHANGED <<cwd, descriptors, custom_project_path, project_directory, located>>
    /\ UNCHANGED <<textVars, pipeVars, depVars>>

LocNext == LocateStart \/ LocateFound \/ LocateUp \/ LocateRaise

(***************************************************************************)
(* run_dbt_deps (l. 72-87).  packages.yml is what yaml.safe_load makes of  *)
(* it: no document (null), or a mapping that may have the key packages,    *)
(* whose value is null or a list of mappings that may have the key package.*)
(***************************************************************************)
Codegen == "fishtown-analytics/codegen"

PackageEntries ==
    {[has_package |-> TRUE, package |-> Codegen],
     [has_package |-> TRUE, package |-> "fishtown-analytics/dbt_utils"],
     [has_package |-> FALSE, package |-> ""]}

PackagesFile(exists, null_doc, has_key, key_null, entries) ==
    [exists |-> exists, null_doc |-> null_doc, has_key |-> has_key,
     key_null |-> key_null, entries |-> entries]

PackagesFiles ==
    {PackagesFile(FALSE, FALSE, FALSE, FALSE, <<>>),
     PackagesFile(TRUE, TRUE, FALSE, FALSE, <<>>),
     PackagesFile(TRUE, FALSE, FALSE, FALSE, <<>>),
     PackagesFile(TRUE, FALSE, TRUE, TRUE, <<>>)}
    \cup {PackagesFile(TRUE, FALSE, TRUE, FALSE, l) : l \in SeqsUpTo(PackageEntries, MaxPackages)}

\* entry.get("package")
GetPackage(entry) == IF entry.has_package THEN entry.package ELSE "None"

DepIdle ==
    /\ dpc = "idle" /\ packages_yml = PackagesFile(FALSE, FALSE, FALSE, FALSE, <<>>)
    /\ package_data = [has_key |-> FALSE, key_null |-> FALSE, entries |-> <<>>]
    /\ package_list = <<>> /\ deps_invoked = FALSE /\ deps_error = ""

DepInit ==
    /\ dpc = "start"
    /\ packages_yml \in PackagesFiles
    /\ package_data = [has_key |-> FALSE, key_null |-> FALSE, entries |-> <<>>]
    /\ package_list = <<>>
    /\ deps_invoked = FALSE
    /\ deps_error = ""

\* l. 75-76
DepsNoFile ==
    /\ dpc = "start"
    /\ ~packages_yml.exists
    /\ deps_error' = "FileExistsError"
    /\ dpc' = "raised"
    /\ UNCHANGED <<packages_yml, package_data, package_list, deps_invoked>>
    /\ UNCHANGED <<textVars, pipeVars, locVars>>

\* l. 78-79: yaml.safe_load(...) or {}
DepsLoad ==
    /\ dpc = "start"
    /\ packages_yml.exists
    /\ package_data' =
          IF packages_yml.null_doc
          THEN [has_key |-> FALSE, key_null |-> FALSE, entries |-> <<>>]
          ELSE [has_key |-> packages_yml.has_key, key_null |-> packages_yml.key_null,
                entries |-> packages_yml.entries]
    /\ dpc' = "loaded"
    /\ UNCHANGED <<packages_yml, package_list, deps_invoked, deps_error>>
    /\ UNCHANGED <<textVars, pipeVars, locVars>>

\* l. 81: package_data.get("packages", {}) is None, and iterating it raises
DepsListRaise ==
    /\ dpc = "loaded"
    /\ package_data.has_key /\ package_data.key_null
    /\ deps_error' = "TypeError"
    /\ dpc' = "raised"
    /\ UNCHANGED <<packages_yml, package_data, package_list, deps_invoked>>
    /\ UNCHANGED <<textVars, pipeVars, locVars>>

\* l. 81
DepsList ==
    /\ dpc = "loaded"
    /\ ~(package_data.has_key /\ package_data.key_null)
    /\ package_list' =
          IF package_data.has_key
          THEN [k \in 1..Len(package_data.entries) |-> GetPackage(package_data.entries[k])]
          ELSE <<>>
    /\ dpc' = "listed"
    /\ UNCHANGED <<packages_yml, package_data, deps_invoked, deps_error>>
    /\ UNCHANGED <<textVars, pipeVars, locVars>>

\* l. 82-84
DepsMissingPackage ==
    /\ dpc = "listed"
    /\ \A k \in 1..Len(package_list) : package_list[k] # Codegen
    /\ deps_error' = "ValueError"
    /\ dpc' = "raised"
    /\ UNCHANGED <<packages_yml, package_data, package_list, deps_invoked>>
    /\ UNCHANGED <<textVars, pipeVars, locVars>>

\* l. 86-87: dbt deps exits with status 0
DepsInstall ==
    /\ dpc = "listed"
    /\ \E k \in 1..Len(package_list) : package_list[k] = Codegen
    /\ deps_invoked' = TRUE
    /\ dpc' = "returned"
    /\ UNCHANGED <<packages_yml, package_data, package_list, deps_error>>
    /\ UNCHANGED <<textVars, pipeVars, locVars>>

\* l. 86-87: dbt deps exits with another status
DepsInstallFail ==
    /\ dpc = "listed"
    /\ \E k \in 1..Len(package_list) : package_list[k] = Codegen
    /\ deps_invoked' = TRUE
    /\ deps_error' = "CalledProcessError"
    /\ dpc' = "raised"
    /\ UNCHANGED <<packages_yml, package_data, package_list>>
    /\ UNCHANGED <<textVars, pipeVars, locVars>>

DepNext ==
    \/ DepsNoFile
    \/ DepsLoad
    \/ DepsListRaise
    \/ DepsList
    \/ DepsMissingPackage
    \/ DepsInstall
    \/ DepsInstallFail

(***************************************************************************)
(* The specifications.                                                     *)
(***************************************************************************)
Init == PipeInit /\ TextIdle /\ LocIdle /\ DepIdle

Next ==
    \/ PlanSources
    \/ ExecSrcSkip
    \/ ExecSrcWrite
    \/ ExecSrcFail
    \/ SrcYmlScan
    \/ SrcYmlScanFail
    \/ PlanBaseModels
    \/ ExecBaseSkip
    \/ ExecBaseWrite
    \/ ExecBaseFail
    \/ Finish
    \/ RunAgain

Spec == Init /\ [][Next]_vars

TextNext == SliceOutput \/ StripOutput \/ StripAgain

InitText == TextInit /\ PipeIdle /\ LocIdle /\ DepIdle

SpecText == InitText /\ [][TextNext]_vars

InitLocate == LocInit /\ TextIdle /\ PipeIdle /\ DepIdle

SpecLocate == InitLocate /\ [][LocNext]_vars

InitDeps == DepInit /\ TextIdle /\ PipeIdle /\ LocIdle

SpecDeps == InitDeps /\ [][DepNext]_vars

(***************************************************************************)
(* Properties of the post-processing, of the locator and of the validator. *)
(***************************************************************************)
Chars(t) == {t[k] : k \in 1..Len(t)}

\* C8 as amended: when the banner does not itself hold the marker, what is
\* written for the output <banner> newline <marker> <rest> is <marker> <rest>
\* with the escape sequences removed, and is <marker> <rest> itself when
\* <rest> holds no escape byte.
C8_MarkerSlice ==
    (tpc \in {"stripped", "restripped"} /\ ~Contains(banner, Marker(tkind))) =>
        /\ cleaned = Marker(tkind) \o rest
        /\ final = StripAnsi(Marker(tkind) \o rest)
        /\ ESC \notin Chars(rest) => final = Marker(tkind) \o rest

C8_Witness ==
    /\ tpc = "stripped"
    /\ ESC \in Chars(banner)
    /\ HasEscape(rest)
    /\ Len(final) < Len(Marker(tkind)) + Len(rest)
    /\ SubSeq(final, 1, Len(Marker(tkind))) = Marker(tkind)

\* C8 as stated: for every banner, what is written is <marker> <rest> with
\* the escape sequences removed.
C8_Original ==
    tpc \in {"stripped", "restripped"} => final = StripAnsi(Marker(tkind) \o rest)

\* C9: the text written after one pass holds no escape sequence, and a second
\* pass over it changes nothing.
C9_StripIdempotent ==
    /\ tpc \in {"stripped", "restripped"} => ~HasEscape(final)
    /\ tpc = "restripped" => again = final

\* The directories from the working directory up to the root.
Chain == {SubSeq(cwd, 1, n) : n \in 0..Len(cwd)}
Holders == Chain \cap descriptors
Nearest == CHOOSE d \in Holders : \A e \in Holders : Len(e) <= Len(d)

\* C7: without an override the locator returns the nearest directory, from the
\* working directory up to the root, that holds dbt_project.yml, and raises
\* exactly when none of them holds it.
C7_NearestOrNotFound ==
    (custom_project_path = "" /\ lpc \in {"returned", "raised"}) =>
        /\ lpc = "raised" <=> Holders = {}
        /\ lpc = "returned" => located = PathStr(Nearest)

\* Some entry of the file names the code-generation package.
NamesCodegen ==
    /\ ~packages_yml.null_doc /\ packages_yml.has_key /\ ~packages_yml.key_null
    /\ \E k \in 1..Len(packages_yml.entries) :
        packages_yml.entries[k].has_package /\ packages_yml.entries[k].package = Codegen

\* C6: for an existing packages.yml the install command is invoked exactly
\* when some entry names the code-generation package, and in every other case
\* the validator raises MissingRequiredPackage (ValueError).
C6_InstallIffCodegen ==
    (packages_yml.exists /\ dpc \in {"returned", "raised"}) =>
        /\ deps_invoked <=> NamesCodegen
        /\ ~deps_invoked => deps_error = "ValueError"

====
